---- MODULE Spec2Model ----
(***************************************************************************)
(* Thread-local arena allocator of src/arena.c, modelled for one thread.   *)
(*                                                                         *)
(* Memory is an array of 8-byte cells addressed by their byte address.     *)
(* A BlockHeader occupies three cells: size at +0, freed at +8 (the int    *)
(* and its padding), next at +16; the payload starts at +24.  All sizes    *)
(* and addresses are bytes and all size_t / uintptr_t arithmetic is done   *)
(* modulo 2^SIZE_BITS.  The heap that malloc/realloc hand the backing      *)
(* buffer from is NumRegions regions of RegionSize bytes each.             *)
(***************************************************************************)
EXTENDS Integers, Sequences, FiniteSets, TLC

\* ---- platform and program constants -----------------------------------
\* width of size_t / uintptr_t in the model (scaled down from 64)
SIZE_BITS == 10
TwoW == 2 ^ SIZE_BITS
SIZE_MAX == TwoW - 1
\* sizeof(size_t), the cell size
WordSize == 8
\* sizeof(max_align_t) on LP64
MaxAlign == 32
\* sizeof(BlockHeader) on LP64: size_t + int + padding + pointer
HeaderSize == 24
GROWTH_FACTOR == 2
\* initial arena size (scaled down from 5 MiB)
MIN_THREAD_STACK == 128
NULL == 0

\* field offsets inside a BlockHeader
OffSize == 0
OffFreed == 8
OffNext == 16

\* ---- the heap the backing buffer lives in -------------------------------
NumRegions == 2
\* address of the first region (address 0 is NULL)
BaseAddr == 2 * MaxAlign
\* bound on the number of allocator calls in a run
MaxOps == 5
\* threads that use the allocator, and the calls and exits they make in a run
NumThreads == 2
MaxThreadOps == 5
\* the demo pipeline: tasks (argv[1]) and pool threads (argv[2])
nTasks == 3
nThreads == 2

ALIGN(x) ==
    LET y == (x + MaxAlign - 1) % TwoW
    IN  y - (y % MaxAlign)

\* the most the heap ever grants to one buffer
RegionSize == GROWTH_FACTOR * ALIGN(MIN_THREAD_STACK) + 2 * MaxAlign
RegionBase(k) == BaseAddr + k * RegionSize
TopAddr == RegionBase(NumRegions)
Cells == {x \in BaseAddr .. (TopAddr - 1) : x % WordSize = 0}
Bases == {RegionBase(k) : k \in 0 .. (NumRegions - 1)}

Max(x, y) == IF x >= y THEN x ELSE y
Min(x, y) == IF x <= y THEN x ELSE y

VARIABLES
    arena,      \* the thread's ThreadArena: exists, buffer, capacity, offset, freelist
    mem,        \* the heap cells
    held,       \* pointers the caller holds, with the size it asked for
    last,       \* the last call: op, size, ptr, ret, path
    nops,       \* number of calls made
    crashed,    \* the process was killed by a memory fault
    tarena,     \* per thread: the ThreadArena its arena_key slot refers to
    theld,      \* per thread: pointers the thread's code holds
    key,        \* key_once and the number of keys make_key created
    tpc,        \* per thread: where it is (out of a call, in pthread_once, gone)
    life,       \* per thread: calls made, arenas created, buffers and records released
    tlast,      \* the thread that made the last step, and the step
    pipe        \* the demo pipeline: its two threads, the two queues, the jobs

tvars == <<tarena, theld, key, tpc, life, tlast>>
vars == <<arena, mem, held, last, nops, crashed, tarena, theld, key, tpc, life, tlast, pipe>>

\* ---- memory access -------------------------------------------------------
\* 0: inside the current buffer; 1: heap memory outside it (released or never
\* allocated: the access is undefined, it may fault or hit stale data);
\* 2: unmapped (the access faults)
Acc(a, x) ==
    IF x \notin Cells THEN 2
    ELSE IF a.buffer <= x /\ x < a.buffer + a.capacity THEN 0
    ELSE 1

Rd(m, x) == IF x \in Cells THEN m[x] ELSE 0
Wr(m, x, v) == IF x \in Cells THEN [m EXCEPT ![x] = v] ELSE m

\* a read of one header field by the allocator
LoadW(st, x) == Rd(st.mem, x)
Touch(st, x) == [st EXCEPT !.fault = Max(@, Acc(st.a, x))]
StoreW(st, x, v) ==
    [st EXCEPT !.mem = Wr(@, x, v), !.fault = Max(@, Acc(st.a, x))]


\* pointer arithmetic in uintptr_t
P(x, d) == (x + d) % TwoW

\* more links than the heap has cells: a list walk that takes longer never ends
Fuel == Cardinality(Cells) + 1

\* ---- arena.c: arena_expand ------------------------------------------------
RECURSIVE GrowCap(_, _, _)
GrowCap(new_cap, required, fuel) ==
    IF new_cap >= required \/ fuel = 0 THEN new_cap
    ELSE LET c1 == IF new_cap # 0 THEN (new_cap * GROWTH_FACTOR) % TwoW
                   ELSE ALIGN(required)
             c2 == IF c1 < required THEN required ELSE c1
         IN  GrowCap(c2, required, fuel - 1)

\* realloc(buffer, new_cap) moving the block to region base nb: the first
\* min(old, new) bytes are copied, the old block is released as it is
MoveCells(m, ob, nb, n) ==
    [x \in Cells |->
        IF nb <= x /\ x < nb + n /\ (ob + (x - nb)) \in Cells
        THEN m[ob + (x - nb)] ELSE m[x]]

\* arena_expand storing the new capacity before realloc has answered
arena_expand_capacity_first(st, required, env) ==
    LET a == st.a
        new_cap == GrowCap(a.capacity, required, SIZE_BITS + 1)
        fits == new_cap <= RegionSize
    IN  IF env.grow = "fail" \/ ~fits
        THEN [st EXCEPT !.a.capacity = new_cap, !.rc = -1]
        ELSE IF env.grow = "inplace" \/ env.base = a.buffer
        THEN [st EXCEPT !.a.capacity = new_cap, !.rc = 0, !.grown = "inplace"]
        ELSE [st EXCEPT !.a.buffer = env.base,
                        !.a.capacity = new_cap,
                        !.mem = MoveCells(st.mem, a.buffer, env.base,
                                          Min(a.capacity, new_cap)),
                        !.rc = 0, !.grown = "moved"]

\* env.grow is what realloc does: "fail", "inplace" or "move" (to env.base)
arena_expand(st, required, env) ==
    LET a == st.a
        new_cap == GrowCap(a.capacity, required, SIZE_BITS + 1)
        fits == new_cap <= RegionSize
    IN  IF env.grow = "fail" \/ ~fits
        THEN [st EXCEPT !.rc = -1]
        ELSE IF env.grow = "inplace" \/ env.base = a.buffer
        THEN [st EXCEPT !.a.capacity = new_cap, !.rc = 0, !.grown = "inplace"]
        ELSE [st EXCEPT !.a.buffer = env.base,
                        !.a.capacity = new_cap,
                        !.mem = MoveCells(st.mem, a.buffer, env.base,
                                          Min(a.capacity, new_cap)),
                        !.rc = 0, !.grown = "moved"]

\* ---- arena.c: get_arena ---------------------------------------------------
\* env.create is what the two malloc calls do: "ok" (buffer at env.base) or "fail"
get_arena(st, env) ==
    IF st.a.exists THEN st
    ELSE IF env.create = "fail" THEN st
    ELSE [st EXCEPT !.a = [exists |-> TRUE, buffer |-> env.base,
                           capacity |-> ALIGN(MIN_THREAD_STACK),
                           offset |-> 0, freelist |-> NULL]]

\* ---- arena.c: freelist_insert_and_coalesce --------------------------------
\* the insertion-point loop: returns prev, curr and the state with the reads noted
RECURSIVE FindInsert(_, _, _, _, _)
FindInsert(st, prev, curr, block, fuel) ==
    IF curr # NULL /\ curr < block
    THEN IF fuel = 0 THEN [st |-> [st EXCEPT !.hang = TRUE], prev |-> prev, curr |-> curr]
         ELSE FindInsert(Touch(st, P(curr, OffNext)), curr,
                         LoadW(st, P(curr, OffNext)), block, fuel - 1)
    ELSE [st |-> st, prev |-> prev, curr |-> curr]

CoalesceNext(st, block) ==
    LET nxt == LoadW(st, P(block, OffNext))
    IN  IF nxt = NULL THEN st
        ELSE LET s1 == Touch(st, P(nxt, OffFreed))
             IN  IF LoadW(s1, P(nxt, OffFreed)) = 0 THEN s1
                 ELSE LET end_block == P(P(block, HeaderSize), LoadW(s1, P(block, OffSize)))
                      IN  IF end_block # nxt THEN s1
                          ELSE LET s2 == Touch(Touch(s1, P(nxt, OffSize)), P(nxt, OffNext))
                                   sz == (LoadW(s2, P(block, OffSize)) + HeaderSize
                                            + LoadW(s2, P(nxt, OffSize))) % TwoW
                                   s3 == StoreW(s2, P(block, OffSize), sz)
                               IN  StoreW(s3, P(block, OffNext), LoadW(s3, P(nxt, OffNext)))

CoalescePrev(st, prev, block) ==
    IF prev = NULL THEN st
    ELSE LET s1 == Touch(st, P(prev, OffFreed))
         IN  IF LoadW(s1, P(prev, OffFreed)) = 0 THEN s1
             ELSE LET end_prev == P(P(prev, HeaderSize), LoadW(s1, P(prev, OffSize)))
                  IN  IF end_prev # block THEN s1
                      ELSE LET sz == (LoadW(s1, P(prev, OffSize)) + HeaderSize
                                        + LoadW(s1, P(block, OffSize))) % TwoW
                               s2 == StoreW(s1, P(prev, OffSize), sz)
                           IN  StoreW(s2, P(prev, OffNext), LoadW(s2, P(block, OffNext)))

\* the new block linked between prev and curr (f: what the loop found)
freelist_link(f, block) ==
    StoreW(IF f.prev # NULL THEN StoreW(f.st, P(f.prev, OffNext), block)
           ELSE [f.st EXCEPT !.a.freelist = block],
           P(block, OffNext), f.curr)

freelist_coalesce(f, block) ==
    IF f.st.hang THEN f.st
    ELSE CoalescePrev(CoalesceNext(freelist_link(f, block), block), f.prev, block)

freelist_insert_and_coalesce(st, block) ==
    freelist_coalesce(
        FindInsert(StoreW(StoreW(st, P(block, OffFreed), 1), P(block, OffNext), NULL),
                   NULL, st.a.freelist, block, Fuel),
        block)


\* the working state of one call: the arena, the heap, the worst access made
\* so far, and what the call returns
Call(a, m) ==
    [a |-> a, mem |-> m, fault |-> 0, hang |-> FALSE, rc |-> 0,
     grown |-> "no", ret |-> NULL, path |-> "none"]

\* ---- arena.c: armalloc ----------------------------------------------------
\* the first-fit loop; prevp is the address of the link to rewrite (NULL: the
\* arena's freelist field)
RECURSIVE FirstFit(_, _, _, _, _)
FirstFit(st, prevp, curr, aligned, fuel) ==
    IF curr = NULL THEN [st EXCEPT !.path = "nofit"]
    ELSE IF fuel = 0 THEN [st EXCEPT !.hang = TRUE]
    ELSE LET s1 == Touch(Touch(st, P(curr, OffFreed)), P(curr, OffSize))
         IN  IF LoadW(s1, P(curr, OffFreed)) # 0 /\ LoadW(s1, P(curr, OffSize)) >= aligned
             THEN LET nx == LoadW(s1, P(curr, OffNext))
                      s2 == IF prevp = NULL THEN [s1 EXCEPT !.a.freelist = nx]
                            ELSE StoreW(s1, prevp, nx)
                      s3 == StoreW(StoreW(s2, P(curr, OffFreed), 0), P(curr, OffNext), NULL)
                  IN  [s3 EXCEPT !.ret = P(curr, HeaderSize), !.path = "reuse"]
             ELSE FirstFit(Touch(s1, P(curr, OffNext)), P(curr, OffNext),
                           LoadW(s1, P(curr, OffNext)), aligned, fuel - 1)

Bump(st, aligned, total) ==
    LET header == P(st.a.buffer, st.a.offset)
        s1 == StoreW(StoreW(StoreW(st, P(header, OffSize), aligned),
                          P(header, OffFreed), 0), P(header, OffNext), NULL)
    IN  [s1 EXCEPT !.a.offset = (st.a.offset + total) % TwoW,
                   !.ret = P(header, HeaderSize), !.path = "bump"]

\* armalloc advancing the offset before it has looked at arena_expand's answer
armalloc_expanded_offset_first(e, aligned, total) ==
    IF e.rc # 0
    THEN [e EXCEPT !.a.offset = (@ + total) % TwoW, !.ret = NULL, !.path = "growfail"]
    ELSE Bump(e, aligned, total)

\* after arena_expand (e: its outcome)
armalloc_expanded(e, aligned, total) ==
    IF e.rc # 0 THEN [e EXCEPT !.ret = NULL, !.path = "growfail"]
    ELSE Bump(e, aligned, total)

\* after the first-fit loop (f: its outcome)
armalloc_carve(f, aligned, total, env) ==
    IF f.hang \/ f.path = "reuse" THEN f
    ELSE IF (f.a.offset + total) % TwoW > f.a.capacity
    THEN armalloc_expanded(arena_expand(f, (f.a.offset + total) % TwoW, env),
                           aligned, total)
    ELSE Bump(f, aligned, total)

\* with the thread's arena (st: the outcome of get_arena)
armalloc_in(st, aligned, total, env) ==
    IF ~st.a.exists THEN [st EXCEPT !.ret = NULL, !.path = "noarena"]
    ELSE armalloc_carve(FirstFit(st, NULL, st.a.freelist, aligned, Fuel),
                        aligned, total, env)

armalloc(st0, size, env) ==
    armalloc_in(get_arena(st0, env), ALIGN(size), (ALIGN(size) + HeaderSize) % TwoW, env)


\* ---- libc: memset, memcpy -------------------------------------------------
\* the cell at c holds some of the bytes [x, x + n)
InSpan(c, x, n) == x <= c /\ c < x + n
\* worst access over the n bytes at x (the bytes past the heap are unmapped)
SpanAcc(a, x, n) ==
    IF n = 0 THEN 0
    ELSE IF x + n > TopAddr \/ x < BaseAddr THEN 2
    ELSE IF a.buffer <= x /\ x + n <= a.buffer + a.capacity THEN 0
    ELSE 1

memset(st, x, v, n) ==
    [st EXCEPT !.mem = [c \in Cells |-> IF InSpan(c, x, n) THEN v ELSE st.mem[c]],
               !.fault = Max(@, SpanAcc(st.a, x, n))]

memcpy(st, dst, src, n) ==
    [st EXCEPT !.mem = [c \in Cells |->
                          IF InSpan(c, dst, n) THEN Rd(st.mem, src + (c - dst))
                          ELSE st.mem[c]],
               !.fault = Max(@, Max(SpanAcc(st.a, dst, n), SpanAcc(st.a, src, n)))]

\* ---- arena.c: arcalloc ----------------------------------------------------
\* the zero fill (m: the outcome of armalloc)
arcalloc_fill(m, total) ==
    IF m.ret # NULL /\ ~m.hang THEN memset(m, m.ret, 0, total) ELSE m

arcalloc(st, num, size, env) ==
    IF size # 0 /\ num > SIZE_MAX \div size
    THEN [st EXCEPT !.ret = NULL, !.path = "overflow"]
    ELSE arcalloc_fill(armalloc(st, (num * size) % TwoW, env), (num * size) % TwoW)


\* ---- arena.c: arfree ------------------------------------------------------
\* arfree without its already-freed guard
arfree_unguarded_in(st, header) ==
    IF ~st.a.exists THEN [st EXCEPT !.path = "noarena"]
    ELSE [freelist_insert_and_coalesce(Touch(st, P(header, OffFreed)), header)
             EXCEPT !.path = IF LoadW(st, P(header, OffFreed)) # 0
                             THEN "already" ELSE "freed"]

arfree_unguarded(st0, ptr, env) ==
    IF ptr = NULL THEN [st0 EXCEPT !.path = "null"]
    ELSE arfree_unguarded_in(get_arena(st0, env), P(ptr, TwoW - HeaderSize))

\* with the thread's arena (st: the outcome of get_arena)
arfree_in(st, header) ==
    IF ~st.a.exists THEN [st EXCEPT !.path = "noarena"]
    ELSE IF LoadW(st, P(header, OffFreed)) # 0
    THEN [Touch(st, P(header, OffFreed)) EXCEPT !.path = "already"]
    ELSE [freelist_insert_and_coalesce(Touch(st, P(header, OffFreed)), header)
             EXCEPT !.path = "freed"]

arfree(st0, ptr, env) ==
    IF ptr = NULL THEN [st0 EXCEPT !.path = "null"]
    ELSE arfree_in(get_arena(st0, env), P(ptr, TwoW - HeaderSize))


\* ---- arena.c: arrealloc ---------------------------------------------------
\* the copy and the release of the old block (m: the outcome of armalloc)
arrealloc_move(m, ptr, header, env) ==
    IF m.hang \/ m.ret = NULL THEN m
    ELSE [arfree(memcpy(Touch(m, P(header, OffSize)), m.ret, ptr,
                        LoadW(m, P(header, OffSize))),
                 ptr, env)
             EXCEPT !.ret = m.ret,
                    !.path = IF m.path = "reuse" THEN "grow-reuse" ELSE "grow-bump"]

\* with the thread's arena (st: the outcome of get_arena)
arrealloc_in(st, ptr, header, new_size, env) ==
    IF ~st.a.exists THEN [st EXCEPT !.ret = NULL, !.path = "noarena"]
    ELSE IF ptr = NULL THEN armalloc(st, new_size, env)
    ELSE IF ALIGN(new_size) <= LoadW(st, P(header, OffSize))
    THEN [StoreW(st, P(header, OffSize), ALIGN(new_size))
             EXCEPT !.ret = ptr, !.path = "shrink"]
    ELSE arrealloc_move(armalloc(Touch(st, P(header, OffSize)), new_size, env),
                        ptr, header, env)

arrealloc(st0, ptr, new_size, env) ==
    arrealloc_in(get_arena(st0, env), ptr, P(ptr, TwoW - HeaderSize), new_size, env)


\* ---- arena.c: arreset -----------------------------------------------------
\* arreset that rewinds the offset and keeps the free list
arreset_keeps_freelist_in(st) ==
    IF ~st.a.exists THEN [st EXCEPT !.path = "noarena"]
    ELSE [st EXCEPT !.a.offset = 0, !.path = "reset"]

arreset_keeps_freelist(st0, env) == arreset_keeps_freelist_in(get_arena(st0, env))

\* with the thread's arena (st: the outcome of get_arena)
arreset_in(st) ==
    IF ~st.a.exists THEN [st EXCEPT !.path = "noarena"]
    ELSE [st EXCEPT !.a.offset = 0, !.a.freelist = NULL, !.path = "reset"]

arreset(st0, env) == arreset_in(get_arena(st0, env))


\* ---- the caller and the platform -----------------------------------------
\* what malloc and realloc may do during one call
EnvsFor(a) ==
    {e \in [create : {"ok", "fail"}, base : Bases, grow : {"fail", "inplace", "move"},
            to : Bases] :
        /\ a.exists => (e.create = "ok" /\ e.base = a.buffer)
        /\ e.create = "fail" => (e.grow = "fail" /\ e.to = e.base /\ e.base = RegionBase(0))
        /\ IF e.grow = "move" THEN e.to # e.base ELSE e.to = e.base}

Env(e) == [create |-> e.create, base |-> IF e.grow = "move" THEN e.to ELSE e.base,
           grow |-> e.grow]

\* sizes the caller asks for: small ones, one the heap cannot hold, and two
\* within an alignment unit or two of SIZE_MAX
TooBig == RegionSize
\* one that only the clamp of arena_expand can serve
Large == RegionSize - ALIGN(MIN_THREAD_STACK)
AllocSizes == {8, 40, SIZE_MAX - 40, SIZE_MAX}
ReallocSizes == {8, 72, Large, TooBig}
CallocArgs == {<<2, 8>>, <<SIZE_MAX, 2>>, <<1, SIZE_MAX - 7>>}

\* what fresh heap memory holds, and what the caller writes
Junk(x) == x + 1
Stamp == SIZE_MAX

NoCall == [op |-> "none", size |-> 0, num |-> 0, ptr |-> NULL, ret |-> NULL,
           path |-> "none", grown |-> "no", after |-> "other"]

\* what the call before this one was, where a claim asks: a Reset, or a Free of
\* the very pointer now freed again
After(op, ptr) ==
    IF last.op = "reset" THEN "reset"
    ELSE IF op = "free" /\ last.op = "free" /\ ptr # NULL /\ last.ptr = ptr THEN "free"
    ELSE "other"

Threads == 1 .. NumThreads
\* the arena_key slot of a thread that has no arena
NoArena == [exists |-> FALSE, buffer |-> NULL, capacity |-> 0, offset |-> 0,
            freelist |-> NULL]

\* main before pthread_create: both queues empty, no job made
PipeStart ==
    [i |-> 1, source |-> "run", forward |-> "wait", job |-> 0,
     q1in |-> <<>>, q1run |-> {}, q1out |-> {}, q1next |-> 1,
     q2in |-> <<>>, q2run |-> {},
     done1 |-> {}, done2 |-> {}, freed |-> [j \in 1 .. nTasks |-> 0]]

Init ==
    /\ arena = NoArena
    /\ mem = [x \in Cells |-> Junk(x)]
    /\ held = <<>>
    /\ last = NoCall
    /\ nops = 0
    /\ crashed = FALSE
    /\ tarena = [t \in Threads |-> NoArena]
    /\ theld = [t \in Threads |-> <<>>]
    /\ key = [once |-> "init", created |-> 0]
    /\ tpc = [t \in Threads |-> "out"]
    /\ life = [t \in Threads |-> [called |-> FALSE, created |-> 0, bufs |-> 0, recs |-> 0]]
    /\ tlast = [t |-> 0, op |-> "none"]
    /\ pipe = PipeStart

Without(h, p) == [q \in DOMAIN h \ {p} |-> h[q]]
With(h, p, s) == (p :> s) @@ h

\* realloc's answer is a choice only in a call that asks it
Asked(e, r) == e.grow = "fail" \/ r.grown # "no"

\* the pointers the caller holds after a call that returned
HeldAfter(r, op, num, size, ptr) ==
    IF op = "malloc" THEN (IF r.ret # NULL THEN With(held, r.ret, size) ELSE held)
    ELSE IF op = "calloc"
    THEN (IF r.ret # NULL THEN With(held, r.ret, num * size) ELSE held)
    ELSE IF op = "realloc"
    THEN (IF r.ret = NULL THEN held ELSE With(Without(held, ptr), r.ret, size))
    ELSE IF op = "free" THEN Without(held, ptr)
    ELSE IF op = "reset" THEN <<>>
    ELSE held

\* the call returns (r.fault < 2), or the process is killed by the access
Returns(r, op, num, size, ptr) ==
    /\ r.fault < 2 /\ ~r.hang
    /\ arena' = r.a
    /\ mem' = r.mem
    /\ held' = HeldAfter(r, op, num, size, ptr)
    /\ last' = [op |-> op, size |-> size, num |-> num, ptr |-> ptr, ret |-> r.ret,
                path |-> r.path, grown |-> r.grown, after |-> After(op, ptr)]
    /\ crashed' = FALSE

Faults(r, op, num, size, ptr) ==
    /\ r.fault > 0 \/ r.hang
    /\ crashed' = TRUE
    /\ last' = [op |-> op, size |-> size, num |-> num, ptr |-> ptr, ret |-> NULL,
                path |-> IF r.hang THEN "hang" ELSE "fault", grown |-> r.grown,
                after |-> After(op, ptr)]
    /\ UNCHANGED <<arena, mem, held>>

\* one call of the allocator with outcome r, under the platform's choice e
Outcome(r, e, op, num, size, ptr) ==
    /\ Asked(e, r)
    /\ \/ Returns(r, op, num, size, ptr)
       \/ Faults(r, op, num, size, ptr)
    /\ UNCHANGED <<tvars, pipe>>

CanCall == ~crashed /\ nops < MaxOps

Allocate ==
    /\ CanCall
    /\ nops' = nops + 1
    /\ \E s \in AllocSizes, e \in EnvsFor(arena) :
         Outcome(armalloc(Call(arena, mem), s, Env(e)), e, "malloc", 1, s, NULL)

AllocateZeroed ==
    /\ CanCall
    /\ nops' = nops + 1
    /\ \E c \in CallocArgs, e \in EnvsFor(arena) :
         Outcome(arcalloc(Call(arena, mem), c[1], c[2], Env(e)), e,
                 "calloc", c[1], c[2], NULL)

Reallocate ==
    /\ CanCall
    /\ nops' = nops + 1
    /\ \E p \in DOMAIN held \cup {NULL}, s \in ReallocSizes, e \in EnvsFor(arena) :
         Outcome(arrealloc(Call(arena, mem), p, s, Env(e)), e, "realloc", 1, s, p)

\* Free of a pointer the caller holds, of NULL, or once more of the pointer
\* it has just freed
Free ==
    /\ CanCall
    /\ nops' = nops + 1
    /\ \E p \in DOMAIN held \cup {NULL}
              \cup (IF last.op = "free" THEN {last.ptr} ELSE {}),
          e \in EnvsFor(arena) :
         Outcome(arfree(Call(arena, mem), p, Env(e)), e, "free", 1, 0, p)

\* arreset makes no access to the heap: it always returns
Reset ==
    /\ CanCall
    /\ nops' = nops + 1
    /\ \E e \in EnvsFor(arena) :
         Outcome(arreset(Call(arena, mem), Env(e)), e, "reset", 1, 0, NULL)

\* the caller fills the bytes it asked for in the block it has just got
Write ==
    /\ CanCall
    /\ nops' = nops + 1
    /\ \E p \in DOMAIN held \cap {last.ret} :
         Outcome(memset(Call(arena, mem), p, Stamp, held[p]),
                 [grow |-> "fail"], "write", 1, held[p], p)

Next == Allocate \/ AllocateZeroed \/ Reallocate \/ Free \/ Reset \/ Write

Spec == Init /\ [][Next]_vars


\* ---- threads: arena_key, key_once, arena_destructor -----------------------
\* pthread_once(&key_once, make_key): where a thread that arrives goes: it runs
\* make_key itself, waits for the thread that does, or passes
pthread_once(k) ==
    IF k.once = "init" THEN "making"
    ELSE IF k.once = "busy" THEN "wait"
    ELSE "in"

\* make_key: pthread_key_create(&arena_key, arena_destructor)
make_key(k) == [once |-> "done", created |-> k.created + 1]

\* arena_destructor that releases the record and leaves the buffer
arena_destructor_keeps_buffer(a) ==
    IF ~a.exists THEN [bufs |-> 0, recs |-> 0]
    ELSE [bufs |-> 0, recs |-> 1]

\* what arena_destructor releases for the value a of the thread's slot
arena_destructor(a) ==
    IF ~a.exists THEN [bufs |-> 0, recs |-> 0]
    ELSE [bufs |-> 1, recs |-> 1]

\* the region at base b is not the buffer of another thread's arena
FreeBase(b, t) == \A u \in Threads \ {t} : ~(tarena[u].exists /\ tarena[u].buffer = b)

\* what malloc and realloc may do during one call of thread t: they hand out
\* storage no other arena owns
ThreadEnvs(t) ==
    {e \in EnvsFor(tarena[t]) :
        e.create = "ok" => (FreeBase(e.base, t) /\ FreeBase(e.to, t))}

\* sizes the threads ask for
ThreadSizes == {8, Large}
ThreadReallocSizes == {8, 72}

\* the pointers thread t holds after a call that returned
THeldAfter(h, r, op, size, ptr) ==
    IF op = "malloc" THEN (IF r.ret # NULL THEN With(h, r.ret, size) ELSE h)
    ELSE IF op = "realloc"
    THEN (IF r.ret = NULL THEN h ELSE With(Without(h, ptr), r.ret, size))
    ELSE IF op = "free" THEN Without(h, ptr)
    ELSE <<>>

\* the thread's record of its calls, arenas created and storage released
Called(l, made) == [l EXCEPT !.called = TRUE, !.created = @ + (IF made THEN 1 ELSE 0)]

TReturns(t, r, op, size, ptr) ==
    /\ r.fault < 2 /\ ~r.hang
    /\ tarena' = [tarena EXCEPT ![t] = r.a]
    /\ mem' = r.mem
    /\ theld' = [theld EXCEPT ![t] = THeldAfter(@, r, op, size, ptr)]
    /\ life' = [life EXCEPT ![t] = Called(@, ~tarena[t].exists /\ r.a.exists)]
    /\ crashed' = FALSE

TFaults(t, r) ==
    /\ r.fault > 0 \/ r.hang
    /\ crashed' = TRUE
    /\ life' = [life EXCEPT ![t] = Called(@, FALSE)]
    /\ UNCHANGED <<tarena, mem, theld>>

\* one call of the allocator by thread t with outcome r
ThreadOutcome(t, r, e, op, size, ptr) ==
    /\ Asked(e, r)
    /\ \/ TReturns(t, r, op, size, ptr)
       \/ TFaults(t, r)
    /\ nops' = nops + 1
    /\ tpc' = [tpc EXCEPT ![t] = "out"]
    /\ tlast' = [t |-> t, op |-> op]
    /\ UNCHANGED <<pipe, arena, held, last, key>>

\* thread t is past pthread_once in a call it may make
TCanCall(t) ==
    /\ ~crashed /\ nops < MaxThreadOps
    /\ tpc[t] = "in" \/ (tpc[t] = "out" /\ key.once = "done")

\* a thread's call arrives at pthread_once before make_key has returned
OnceArrive(t) ==
    /\ ~crashed /\ nops < MaxThreadOps
    /\ tpc[t] = "out" /\ key.once # "done"
    /\ tpc' = [tpc EXCEPT ![t] = pthread_once(key)]
    /\ key' = IF key.once = "init" THEN [key EXCEPT !.once = "busy"] ELSE key
    /\ tlast' = [t |-> t, op |-> "once"]
    /\ UNCHANGED <<pipe, arena, mem, held, last, nops, crashed, tarena, theld, life>>

\* the thread that pthread_once chose runs make_key
MakeKey(t) ==
    /\ ~crashed /\ tpc[t] = "making"
    /\ key' = make_key(key)
    /\ tpc' = [tpc EXCEPT ![t] = "in"]
    /\ tlast' = [t |-> t, op |-> "make_key"]
    /\ UNCHANGED <<pipe, arena, mem, held, last, nops, crashed, tarena, theld, life>>

\* a thread that waited in pthread_once goes on once make_key has returned
OncePass(t) ==
    /\ ~crashed /\ tpc[t] = "wait" /\ key.once = "done"
    /\ tpc' = [tpc EXCEPT ![t] = "in"]
    /\ tlast' = [t |-> t, op |-> "pass"]
    /\ UNCHANGED <<pipe, arena, mem, held, last, nops, crashed, tarena, theld, life, key>>

ThreadAllocate(t) ==
    /\ TCanCall(t)
    /\ \E s \in ThreadSizes, e \in ThreadEnvs(t) :
         ThreadOutcome(t, armalloc(Call(tarena[t], mem), s, Env(e)), e, "malloc", s, NULL)

ThreadReallocate(t) ==
    /\ TCanCall(t)
    /\ \E p \in DOMAIN theld[t], s \in ThreadReallocSizes, e \in ThreadEnvs(t) :
         ThreadOutcome(t, arrealloc(Call(tarena[t], mem), p, s, Env(e)), e, "realloc", s, p)

ThreadFree(t) ==
    /\ TCanCall(t)
    /\ \E p \in DOMAIN theld[t], e \in ThreadEnvs(t) :
         ThreadOutcome(t, arfree(Call(tarena[t], mem), p, Env(e)), e, "free", 0, p)

ThreadReset(t) ==
    /\ TCanCall(t)
    /\ \E e \in ThreadEnvs(t) :
         ThreadOutcome(t, arreset(Call(tarena[t], mem), Env(e)), e, "reset", 0, NULL)

\* the thread terminates: if arena_key exists and the thread's slot is set,
\* the slot is cleared and arena_destructor runs on its value
ThreadExit(t) ==
    /\ ~crashed /\ nops < MaxThreadOps
    /\ tpc[t] = "out"
    /\ tpc' = [tpc EXCEPT ![t] = "gone"]
    /\ life' = [life EXCEPT ![t].bufs = @ + arena_destructor(tarena[t]).bufs,
                            ![t].recs = @ + arena_destructor(tarena[t]).recs]
    /\ tarena' = [tarena EXCEPT ![t] = NoArena]
    /\ theld' = [theld EXCEPT ![t] = <<>>]
    /\ nops' = nops + 1
    /\ tlast' = [t |-> t, op |-> "exit"]
    /\ UNCHANGED <<pipe, arena, mem, held, last, crashed, key>>

ThreadNext ==
    \E t \in Threads :
        \/ OnceArrive(t) \/ MakeKey(t) \/ OncePass(t)
        \/ ThreadAllocate(t) \/ ThreadReallocate(t) \/ ThreadFree(t) \/ ThreadReset(t)
        \/ ThreadExit(t)

ThreadSpec == Init /\ [][ThreadNext]_vars


\* ---- main.c: the demo pipeline ---------------------------------------------
\* the allocator's state, which the pipeline does not use
NoArenaUse == UNCHANGED <<arena, mem, held, last, nops, crashed, tvars>>

\* hts_tpool_process_empty(q1): nothing queued, nothing running, no result
hts_tpool_process_empty(p) == p.q1in = <<>> /\ p.q1run = {} /\ p.q1out = {}

\* pool threads busy with a job
Busy(p) == Cardinality(p.q1run) + Cardinality(p.q2run)

\* pipe_in_to_q1: one turn of the loop makes job i and dispatches it to q1
SourceDispatch ==
    /\ pipe.source = "run" /\ pipe.i <= nTasks
    /\ pipe' = [pipe EXCEPT !.q1in = Append(@, pipe.i), !.i = @ + 1]
    /\ NoArenaUse

\* pipe_in_to_q1: the loop is over, pthread_exit(0)
SourceExit ==
    /\ pipe.source = "run" /\ pipe.i > nTasks
    /\ pipe' = [pipe EXCEPT !.source = "done"]
    /\ NoArenaUse

\* a pool thread takes the next job of q1
TakeQ1 ==
    /\ pipe.q1in # <<>> /\ Busy(pipe) < nThreads
    /\ pipe' = [pipe EXCEPT !.q1in = Tail(@), !.q1run = @ \cup {Head(pipe.q1in)}]
    /\ NoArenaUse

\* process_q1 returns the job, which becomes a result of q1
process_q1 ==
    /\ \E j \in pipe.q1run :
         pipe' = [pipe EXCEPT !.q1run = @ \ {j}, !.q1out = @ \cup {j},
                              !.done1 = @ \cup {j}]
    /\ NoArenaUse

\* pipe_q1_to_q2: hts_tpool_next_result_wait(q1) hands over the next result
\* in dispatch order
ForwardNext ==
    /\ pipe.forward = "wait" /\ pipe.q1next \in pipe.q1out
    /\ pipe' = [pipe EXCEPT !.q1out = @ \ {pipe.q1next}, !.q1next = @ + 1,
                            !.job = pipe.q1next, !.forward = "dispatch"]
    /\ NoArenaUse

\* pipe_q1_to_q2: the job is dispatched to q2
ForwardDispatch ==
    /\ pipe.forward = "dispatch"
    /\ pipe' = [pipe EXCEPT !.q2in = Append(@, pipe.job), !.forward = "check"]
    /\ NoArenaUse

\* pipe_q1_to_q2: break if q1 is empty, else wait for the next result
ForwardCheck ==
    /\ pipe.forward = "check"
    /\ pipe' = [pipe EXCEPT !.forward = IF hts_tpool_process_empty(pipe)
                                        THEN "done" ELSE "wait"]
    /\ NoArenaUse

\* a pool thread takes the next job of q2
TakeQ2 ==
    /\ pipe.q2in # <<>> /\ Busy(pipe) < nThreads
    /\ pipe' = [pipe EXCEPT !.q2in = Tail(@), !.q2run = @ \cup {Head(pipe.q2in)}]
    /\ NoArenaUse

\* process_q2 frees the job
process_q2 ==
    /\ \E j \in pipe.q2run :
         pipe' = [pipe EXCEPT !.q2run = @ \ {j}, !.done2 = @ \cup {j},
                              !.freed[j] = @ + 1]
    /\ NoArenaUse

PipeNext ==
    \/ SourceDispatch \/ SourceExit \/ TakeQ1 \/ process_q1
    \/ ForwardNext \/ ForwardDispatch \/ ForwardCheck \/ TakeQ2 \/ process_q2

PipeSpec == Init /\ [][PipeNext]_vars


\* ---- reading the arena -----------------------------------------------------
\* the headers reachable from a free-list head, in list order
RECURSIVE ListFrom(_, _, _)
ListFrom(m, curr, fuel) ==
    IF curr = NULL \/ curr \notin Cells \/ fuel = 0 THEN <<>>
    ELSE <<curr>> \o ListFrom(m, Rd(m, curr + OffNext), fuel - 1)

FreeList(a, m) == ListFrom(m, a.freelist, Fuel)
SizeOf(m, h) == Rd(m, h + OffSize)
FreedOf(m, h) == Rd(m, h + OffFreed)
HeaderOf(p) == p - HeaderSize
\* one past the last payload byte of the block at header h
EndOf(m, h) == h + HeaderSize + SizeOf(m, h)
InSeq(q, x) == \E i \in 1 .. Len(q) : q[i] = x

\* byte ranges [h1, e1) and [h2, e2) share a byte
Overlap(h1, e1, h2, e2) == h1 < e2 /\ h2 < e1
\* the distinct headers on the free list
FreeHeaders(a, m) == {FreeList(a, m)[i] : i \in 1 .. Len(FreeList(a, m))}

\* C1: a successful Allocate(s) returns a block whose header records ALIGN(s)
\* or more, and every block the caller holds lies inside [buffer, buffer +
\* offset), apart from every other held block and from every free-list entry.
C1_LiveBlocksDisjointInBuffer ==
    (~crashed /\ arena.exists) =>
        /\ (last.op = "malloc" /\ last.ret # NULL) =>
               SizeOf(mem, HeaderOf(last.ret)) >= ALIGN(last.size)
        /\ \A p \in DOMAIN held :
               /\ arena.buffer <= HeaderOf(p)
               /\ EndOf(mem, HeaderOf(p)) <= arena.buffer + arena.offset
               /\ \A q \in DOMAIN held \ {p} :
                      ~Overlap(HeaderOf(p), EndOf(mem, HeaderOf(p)),
                               HeaderOf(q), EndOf(mem, HeaderOf(q)))
               /\ \A f \in FreeHeaders(arena, mem) :
                      ~Overlap(HeaderOf(p), EndOf(mem, HeaderOf(p)),
                               f, EndOf(mem, f))

\* C2: the free list is strictly ascending by header address and no entry ends
\* where the next one starts.
C2_FreeListSortedNoAdjacent ==
    (~crashed /\ arena.exists) =>
        LET fl == FreeList(arena, mem)
        IN  \A i \in 1 .. (Len(fl) - 1) :
                /\ fl[i] < fl[i + 1]
                /\ EndOf(mem, fl[i]) # fl[i + 1]


\* the header of p lies in the arena's current buffer
InBuffer(a, p) ==
    /\ a.exists
    /\ a.buffer <= HeaderOf(p)
    /\ p <= a.buffer + a.capacity

\* a step in which the allocator is called
IsCall(op) == nops' = nops + 1 /\ last'.op = op

\* C3: Free(p) right after a Free(p) that returned changes neither the arena
\* (offset, capacity, free-list head) nor any byte of the heap, so the free
\* list, its order, its sizes and every freed flag are those the first call
\* left and the block is not inserted a second time; and for p a pointer into
\* the arena's buffer the second call returns, by its already-freed guard.
C3_DoubleFreeStep ==
    (/\ IsCall("free")
     /\ last.op = "free" /\ last.ptr # NULL /\ last'.ptr = last.ptr)
    => (/\ arena' = arena
        /\ mem' = mem
        /\ ~crashed' => last'.path = "already"
        /\ InBuffer(arena, last.ptr) => ~crashed')
C3_FreeIdempotent == [][C3_DoubleFreeStep]_vars

\* C8: Reallocate(p, n) of a held block in the buffer with ALIGN(n) no more
\* than the recorded size returns p, records ALIGN(n), and leaves the payload,
\* offset, capacity and free list as they were.
C8_ShrinkStep ==
    (/\ IsCall("realloc")
     /\ last'.ptr \in DOMAIN held
     /\ InBuffer(arena, last'.ptr)
     /\ ALIGN(last'.size) <= SizeOf(mem, HeaderOf(last'.ptr)))
    => (/\ ~crashed'
        /\ last'.ret = last'.ptr
        /\ SizeOf(mem', HeaderOf(last'.ptr)) = ALIGN(last'.size)
        /\ \A c \in Cells : c # HeaderOf(last'.ptr) => mem'[c] = mem[c]
        /\ arena' = arena
        /\ FreeList(arena', mem') = FreeList(arena, mem)
        /\ \A i \in 1 .. Len(FreeList(arena, mem)) :
               SizeOf(mem', FreeList(arena, mem)[i]) = SizeOf(mem, FreeList(arena, mem)[i]))
C8_ShrinkInPlace == [][C8_ShrinkStep]_vars


\* C7: a Reallocate(p, n) of a held block that returns NULL because the buffer
\* could not be grown leaves the arena (buffer, capacity, offset, free-list
\* head) and every byte of the heap as they were, so the block's header, its
\* freed flag, its payload and every free-list link are those of before the
\* call, and the caller still holds p.
C7_FailedGrowStep ==
    (/\ IsCall("realloc")
     /\ last'.ptr \in DOMAIN held
     /\ ~crashed'
     /\ last'.path = "growfail")
    => (/\ last'.ret = NULL
        /\ arena' = arena
        /\ mem' = mem
        /\ held' = held)
C7_ReallocFailureKeepsBlock == [][C7_FailedGrowStep]_vars

\* size rounded up to the alignment unit, in unbounded integers
AlignUp(x) == ((x + MaxAlign - 1) \div MaxAlign) * MaxAlign

\* C9: Reset leaves offset 0 and the free list empty and keeps buffer and
\* capacity; the Allocate after it, if it fits the capacity, returns
\* buffer + HeaderSize; and an Allocate that finds the free list empty and
\* fits is carved right where the last one ended.
C9_ResetStep ==
    /\ IsCall("reset") =>
          /\ ~crashed'
          /\ arena'.offset = 0 /\ arena'.freelist = NULL
          /\ arena.exists =>
                (arena'.buffer = arena.buffer /\ arena'.capacity = arena.capacity)
    /\ (/\ IsCall("malloc") /\ last.op = "reset" /\ arena.exists
        /\ AlignUp(last'.size) + HeaderSize <= arena.capacity)
       => (~crashed' /\ last'.ret = arena.buffer + HeaderSize
           /\ arena'.buffer = arena.buffer)
    /\ (/\ IsCall("malloc") /\ arena.exists /\ arena.freelist = NULL
        /\ arena.offset + AlignUp(last'.size) + HeaderSize <= arena.capacity)
       => (/\ ~crashed'
           /\ last'.ret = arena.buffer + arena.offset + HeaderSize
           /\ arena'.offset = arena.offset + AlignUp(last'.size) + HeaderSize
           /\ arena'.buffer = arena.buffer /\ arena'.capacity = arena.capacity)
C9_ResetRestartsAtBase == [][C9_ResetStep]_vars


\* the sequence q without its element x
RECURSIVE Drop(_, _)
Drop(q, x) ==
    IF q = <<>> THEN <<>>
    ELSE IF Head(q) = x THEN Tail(q)
    ELSE <<Head(q)>> \o Drop(Tail(q), x)

\* the free-list entries an Allocate(s) can reuse
Fitting(a, m, s) == {f \in FreeHeaders(a, m) : SizeOf(m, f) >= AlignUp(s)}
Lowest(S) == CHOOSE x \in S : \A y \in S : x <= y

\* C4: Allocate(s) is first-fit without splitting.  If some free-list entry has
\* size >= align(s), the lowest of them is unlinked, marked live with its size
\* kept, and its payload returned; offset, capacity and the rest of the list
\* stay.  Otherwise a block is carved at buffer + offset and offset advances by
\* align(s) + HeaderSize.
C4_AllocateStep ==
    (IsCall("malloc") /\ arena.exists /\ ~crashed') =>
        LET s == last'.size
            fit == Fitting(arena, mem, s)
        IN  IF fit # {}
            THEN LET h == Lowest(fit)
                 IN  /\ last'.ret = h + HeaderSize
                     /\ FreedOf(mem', h) = 0
                     /\ SizeOf(mem', h) = SizeOf(mem, h)
                     /\ arena'.offset = arena.offset
                     /\ arena'.capacity = arena.capacity
                     /\ FreeList(arena', mem') = Drop(FreeList(arena, mem), h)
            ELSE last'.ret # NULL =>
                     /\ last'.ret = arena'.buffer + arena.offset + HeaderSize
                     /\ arena'.offset = arena.offset + AlignUp(s) + HeaderSize
C4_FirstFitNoSplit == [][C4_AllocateStep]_vars

\* C5: a Free of a held block merges it, within the call, with the free entry
\* that ends where it starts and with the free entry that starts where it
\* ends: afterwards one entry at the lowest of the headers spans them, its size
\* the sum of their sizes plus one HeaderSize per absorbed block; and an
\* Allocate that the merged entry, alone on the list, can serve returns it.
\* (Stated of the calls that return.)
C5_FreeStep ==
    /\ (/\ IsCall("free")
        /\ last'.ptr \in DOMAIN held
        /\ InBuffer(arena, last'.ptr)
        /\ FreedOf(mem, HeaderOf(last'.ptr)) = 0
        /\ ~crashed')
       => LET h == HeaderOf(last'.ptr)
              fh == FreeHeaders(arena, mem)
              pred == {f \in fh : EndOf(mem, f) = h}
              succ == {f \in fh : f = EndOf(mem, h)}
              start == IF pred # {} THEN Lowest(pred) ELSE h
              tail == IF succ # {} THEN HeaderSize + SizeOf(mem, EndOf(mem, h)) ELSE 0
              merged == (IF pred # {} THEN SizeOf(mem, start) + HeaderSize ELSE 0)
                          + SizeOf(mem, h) + tail
          IN  /\ start \in FreeHeaders(arena', mem')
              /\ SizeOf(mem', start) = merged
              /\ pred # {} => h \notin FreeHeaders(arena', mem')
              /\ succ # {} => EndOf(mem, h) \notin FreeHeaders(arena', mem')
    /\ (/\ IsCall("malloc")
        /\ last.op = "free" /\ last.path = "freed"
        /\ Len(FreeList(arena, mem)) = 1
        /\ AlignUp(last'.size) <= SizeOf(mem, arena.freelist)
        /\ ~crashed')
       => last'.ret = arena.freelist + HeaderSize
C5_CoalesceRun == [][C5_FreeStep]_vars

\* C6: a Reallocate(p, n) of a held block in the buffer with ALIGN(n) above the
\* recorded size that returns a block returns a live one inside the arena's
\* buffer of the moment, of n bytes or more, whose leading bytes are the old
\* payload; and the old block is then covered by a free-list entry inside that
\* buffer.
C6_GrowStep ==
    (/\ IsCall("realloc")
     /\ last'.ptr \in DOMAIN held
     /\ InBuffer(arena, last'.ptr)
     /\ ALIGN(last'.size) > SizeOf(mem, HeaderOf(last'.ptr))
     /\ ~crashed' /\ last'.ret # NULL)
    => LET p == last'.ptr
           h == HeaderOf(p)
           old == SizeOf(mem, h)
           q == last'.ret
           moved == arena'.buffer + (h - arena.buffer)
       IN  /\ arena'.buffer <= HeaderOf(q)
           /\ q + last'.size <= arena'.buffer + arena'.capacity
           /\ FreedOf(mem', HeaderOf(q)) = 0
           /\ SizeOf(mem', HeaderOf(q)) >= last'.size
           /\ \A c \in Cells : InSpan(c, p, old) => Rd(mem', q + (c - p)) = mem[c]
           /\ \E f \in FreeHeaders(arena', mem') :
                  /\ arena'.buffer <= f /\ f <= moved
                  /\ moved + HeaderSize + old <= EndOf(mem', f)
                  /\ EndOf(mem', f) <= arena'.buffer + arena'.capacity
C6_ReallocGrow == [][C6_GrowStep]_vars

\* C10: AllocateZeroed(count, size) with size # 0 and count > SIZE_MAX / size
\* returns NULL and leaves the arena as it was; any other call returns NULL or
\* a block whose first count * size bytes are zero.
C10_CallocStep ==
    IsCall("calloc") =>
        IF last'.size # 0 /\ last'.num > SIZE_MAX \div last'.size
        THEN /\ ~crashed' /\ last'.ret = NULL
             /\ arena' = arena
             /\ mem' = mem
        ELSE /\ ~crashed'
             /\ last'.ret # NULL =>
                    \A k \in 0 .. (last'.num * last'.size - 1) :
                        k % WordSize = 0 => Rd(mem', last'.ret + k) = 0
C10_CallocOverflowAndZero == [][C10_CallocStep]_vars


\* C11: an Allocate(s) that returns NULL either found no arena and could not
\* create one, or could not grow the buffer to offset + align(s) + HeaderSize,
\* and then the arena (a fresh one if the call created it) and the heap are as
\* before the call; and an Allocate
\* that returns, with a free-list entry that fits or with
\* offset + align(s) + HeaderSize <= capacity, returns a block.
C11_NullStep ==
    (IsCall("malloc") /\ ~crashed') =>
        /\ last'.ret = NULL => last'.path \in {"noarena", "growfail"}
        /\ last'.path = "noarena" => (~arena.exists /\ ~arena'.exists)
        /\ last'.path = "growfail" =>
               /\ mem' = mem
               /\ IF arena.exists THEN arena' = arena
                  ELSE arena'.offset = 0 /\ arena'.freelist = NULL
                       /\ arena'.capacity = ALIGN(MIN_THREAD_STACK)
               /\ arena'.offset + AlignUp(last'.size) + HeaderSize > arena'.capacity
        /\ (/\ arena.exists
            /\ \/ Fitting(arena, mem, last'.size) # {}
               \/ arena.offset + AlignUp(last'.size) + HeaderSize <= arena.capacity)
           => last'.ret # NULL
C14_FreeListOnlyFreed ==
    (~crashed /\ arena.exists) =>
        LET fl == FreeList(arena, mem)
        IN  /\ Len(fl) < Fuel
            /\ \A i, j \in 1 .. Len(fl) : fl[i] = fl[j] => i = j
            /\ \A i \in 1 .. Len(fl) : FreedOf(mem, fl[i]) # 0
            /\ \A p \in DOMAIN held : ~InSeq(fl, HeaderOf(p))

\* C15: 0 <= offset <= capacity after every call, capacity never decreases,
\* and offset decreases in no call but a Reset.
C15_OffsetStep ==
    (nops' = nops + 1 /\ ~crashed' /\ arena'.exists) =>
        /\ 0 <= arena'.offset /\ arena'.offset <= arena'.capacity
        /\ arena'.capacity >= arena.capacity
        /\ last'.op # "reset" => arena'.offset >= arena.offset
C15_OffsetWithinCapacity == [][C15_OffsetStep]_vars

\* C16: the size recorded in the header of every block the caller holds in
\* the buffer and of every free-list entry in the buffer is a multiple of the
\* alignment unit.
C16_SizesAligned ==
    (~crashed /\ arena.exists) =>
        /\ \A p \in DOMAIN held :
               InBuffer(arena, p) => SizeOf(mem, HeaderOf(p)) % MaxAlign = 0
        /\ \A f \in FreeHeaders(arena, mem) :
               (arena.buffer <= f /\ f < arena.buffer + arena.capacity)
                   => SizeOf(mem, f) % MaxAlign = 0

\* C17: the capacity of an arena is a multiple of the alignment unit, at
\* creation and after every growth.
C17_CapacityAligned == arena.exists => arena.capacity % MaxAlign = 0

\* C18: an Allocate(s) that returns a block returns one whose header records
\* s bytes or more.
C18_AllocateStep ==
    (IsCall("malloc") /\ ~crashed' /\ last'.ret # NULL) =>
        SizeOf(mem', HeaderOf(last'.ret)) >= last'.size
C18_NoUndersizedBlock == [][C18_AllocateStep]_vars

\* C19: after a call that grew the buffer, moved or not, every header
\* reachable from the free-list head lies in [buffer, buffer + offset) of the
\* arena's buffer of the moment.
C19_GrowthStep ==
    (nops' = nops + 1 /\ ~crashed' /\ last'.grown # "no") =>
        \A f \in FreeHeaders(arena', mem') :
            arena'.buffer <= f /\ f < arena'.buffer + arena'.offset
C19_FreeListInsideBuffer == [][C19_GrowthStep]_vars


\* thread u's arena owns the cell at c
Owns(u, c) ==
    /\ tarena[u].exists
    /\ tarena[u].buffer <= c /\ c < tarena[u].buffer + tarena[u].capacity

\* C12: every step of a thread leaves the arena of every other thread
\* (buffer, capacity, offset, free-list head) and every byte of that arena's
\* buffer, the block headers among them, as they were; the buffers of two
\* arenas share no byte; and make_key has created at most one key, also when
\* the threads arrive at pthread_once together.
C12_ThreadStep ==
    ~crashed' =>
        /\ \A u \in Threads \ {tlast'.t} :
               /\ tarena'[u] = tarena[u]
               /\ \A c \in Cells : Owns(u, c) => mem'[c] = mem[c]
        /\ \A u, v \in Threads :
               (u # v /\ tarena'[u].exists /\ tarena'[v].exists) =>
                   ~Overlap(tarena'[u].buffer, tarena'[u].buffer + tarena'[u].capacity,
                            tarena'[v].buffer, tarena'[v].buffer + tarena'[v].capacity)
        /\ key'.created <= 1
C12_ThreadsIsolated == [][C12_ThreadStep]_vars

\* C13: a thread has created at most one arena, and none before it called the
\* allocator; a thread that has terminated has released as many buffers and
\* as many arena records as it created arenas, each once; a thread still
\* running has released none and its slot is set exactly if it created one.
C13_ArenaLifecycle ==
    \A t \in Threads :
        /\ life[t].created <= 1
        /\ ~life[t].called => life[t].created = 0
        /\ life[t].bufs <= life[t].created /\ life[t].recs <= life[t].created
        /\ IF tpc[t] = "gone"
           THEN /\ life[t].bufs = life[t].created /\ life[t].recs = life[t].created
                /\ ~tarena[t].exists
           ELSE /\ life[t].bufs = 0 /\ life[t].recs = 0
                /\ tarena[t].exists <=> life[t].created = 1

\* C20: a task processed in queue 2 was processed in queue 1 before, its job
\* is freed once at most; and when the forwarding thread has stopped, the
\* source has dispatched every task, nothing is pending in queue 1, and every
\* task 1 .. nTasks has been forwarded to queue 2.
C20_PipelineForwardsAll ==
    /\ pipe.done2 \subseteq pipe.done1
    /\ \A j \in 1 .. nTasks : pipe.freed[j] <= 1
    /\ pipe.forward = "done" =>
           /\ pipe.i > nTasks
           /\ hts_tpool_process_empty(pipe)
           /\ pipe.q1next > nTasks

\* ---- reached cases ---------------------------------------------------------
\* a second Free of a block that the first put on the free list
C3_Witness ==
    /\ ~crashed
    /\ last.op = "free" /\ last.after = "free" /\ last.path = "already"
    /\ InBuffer(arena, last.ptr)
    /\ HeaderOf(last.ptr) \in FreeHeaders(arena, mem)

\* a Reallocate of a live held block that failed to grow the buffer
C7_Witness ==
    /\ ~crashed
    /\ last.op = "realloc" /\ last.path = "growfail" /\ last.ret = NULL
    /\ last.ptr \in DOMAIN held
    /\ InBuffer(arena, last.ptr)
    /\ FreedOf(mem, HeaderOf(last.ptr)) = 0
    /\ ALIGN(last.size) > SizeOf(mem, HeaderOf(last.ptr))

\* the Allocate after a Reset of an arena that had blocks, back at the base
C9_Witness ==
    /\ ~crashed
    /\ last.op = "malloc" /\ last.after = "reset" /\ last.path = "bump"
    /\ last.ret = arena.buffer + HeaderSize
    /\ nops >= 3
    /\ DOMAIN held = {last.ret}

C13_Witness ==
    \E t, u \in Threads :
        /\ tpc[t] = "gone" /\ life[t].created = 1
        /\ life[t].bufs = 1 /\ life[t].recs = 1
        /\ tpc[u] = "gone" /\ ~life[u].called

====
